---- MODULE Spec2Model ----
(***************************************************************************)
(* Follow / Block relationship store of the profiles app.                  *)
(*                                                                         *)
(* State: the Follow table, the Block table and the two denormalised       *)
(* counters of every Profile row (profiles/models.py), plus the requests   *)
(* being served.  Requests run on independent worker threads; every        *)
(* database statement (or transaction.atomic block) is one step.           *)
(*                                                                         *)
(* Operations: follow_user and unfollow_user (profiles/views.py),          *)
(* Block.save (profiles/models.py) and the post_save / post_delete         *)
(* receivers update_follow_counts / decrease_follow_counts.                *)
(***************************************************************************)
EXTENDS Integers, FiniteSets, Sequences, TLC

\* ---------------------------------------------------------------- bounds
NumUsers == 3
MaxOps == 3
\* at most MaxBlocks Block rows are stored or being saved at a time; the
\* read paths are checked over MaxCalls calls
MaxBlocks == 1
MaxCalls == 1
\* the blocked-users listing is checked on Block tables of up to MaxRows rows
MaxRows == 2
\* rows of the Stream table
MaxStreams == 1
\* rows of the Post table
MaxPosts == 2

Users == 1..NumUsers
\* request.user of an unauthenticated request (AnonymousUser)
Anonymous == 0
\* a user_id in the URL for which no User row exists
MissingId == NumUsers + 1
Threads == {"t1", "t2"}

VARIABLES
    User,       \* ids of the rows of the User table
    Follow,     \* rows of the Follow table: <<user, followed_user>>
    Block,      \* rows of the Block table: <<blocker, blocked>>
    Profile,    \* Profile row of every user: followers_count, following_count,
                \* is_private, who_can_follow
    pc,         \* position of every worker thread
    req,        \* the request a thread is serving
    last,       \* the most recently answered request and its response
    nops,       \* number of requests started so far
    username,   \* User.username of every User row
    ProfileKey, \* the unique columns of every Profile row: username, slug
    BlockRows,  \* the Block rows in the order of their created_at, as far as
                \* a specification reads created_at
    Stream,     \* rows of the live.Stream table, by id
    cache,      \* django.core.cache entries 'stream_<id>'
    Like,       \* rows of the post.Like table: <<post, user>>
    Save,       \* rows of the post.Save table: <<post, user>>
    post_id     \* the module global post_id of post/views.py

\* the state outside the Follow / Block / counter columns
ext == <<username, ProfileKey, BlockRows, Stream, cache, Like, Save, post_id>>
vars == <<User, Follow, Block, Profile, pc, req, last, nops, ext>>
db == <<Follow, Block, Profile>>

\* a new Profile row: the field defaults of the model
NewProfile ==
    [followers_count |-> 0, following_count |-> 0,
     is_private |-> FALSE, who_can_follow |-> "ALL", bio |-> ""]

NoReq == [op |-> "none", user |-> Anonymous, target |-> Anonymous]

\* ------------------------------------------------------------- the models

\* Reverse accessors that the relations of profiles/models.py put on User
\* (their related_name).  The Profile one-to-one is reachable as
\* user.profiles; there is no attribute user.profile.
UserAccessors_WithProfile == {"profile", "profiles", "following", "followers", "blocker", "blocking"}
UserAccessors == {"profiles", "following", "followers", "blocker", "blocking"}

\* Profile.save(): writes every field of the in-memory object to its row.
\* followers_count / following_count are PositiveIntegerFields: the row
\* cannot hold a negative value (the write raises IntegrityError).
ProfileSaveRaises(obj) == obj.followers_count < 0 \/ obj.following_count < 0

\* Result of a signal receiver: did it raise, and the Profile table it left.
Raised(P) == [raised |-> TRUE, Profile |-> P]
Returned(P) == [raised |-> FALSE, Profile |-> P]

\* The shared body of the two receivers: instance.user.profile and
\* instance.followed_user.profile are two separate in-memory objects, each
\* loaded on first access; one field of each is changed by d; then both
\* objects are saved in turn, each save writing the whole row.
AdjustCounts(P, inst, d) ==
    IF "profile" \notin UserAccessors
    THEN Raised(P)                       \* AttributeError on instance.user.profile
    ELSE IF inst[1] \notin DOMAIN P \/ inst[2] \notin DOMAIN P
    THEN Raised(P)                       \* Profile.DoesNotExist
    ELSE LET u == inst[1]
             f == inst[2]
             uobj == [P[u] EXCEPT !.following_count = @ + d]
             fobj == [P[f] EXCEPT !.followers_count = @ + d]
             P1 == [P EXCEPT ![u] = uobj]
             P2 == [P1 EXCEPT ![f] = fobj]
         IN  IF ProfileSaveRaises(uobj) THEN Raised(P)
             ELSE IF ProfileSaveRaises(fobj) THEN Raised(P1)
             ELSE Returned(P2)

\* @receiver(post_save, sender=Follow)
update_follow_counts(P, inst, created) ==
    IF created THEN AdjustCounts(P, inst, 1) ELSE Returned(P)

\* @receiver(post_delete, sender=Follow)
decrease_follow_counts(P, inst) == AdjustCounts(P, inst, -1)

\* transaction.atomic around a write and the receivers it dispatches
\* (QuerySet.get_or_create, Model.delete, QuerySet.delete): when the block
\* is left by an exception the tables are as they were before it.
atomic_NoRollback(before, after, raised) == after
atomic(before, after, raised) == IF raised THEN before ELSE after

\* ------------------------------------------------------------------ Init
\* the global post_id before any POST has bound it
Unbound == 0

\* the users of Init signed up as "1", "2", ...; no stream, post or cached
\* entry exists
InitExt ==
    /\ username = [u \in Users |-> ToString(u)]
    /\ ProfileKey = [u \in Users |-> [username |-> ToString(u), slug |-> ToString(u)]]
    /\ BlockRows = <<>>
    /\ Stream = <<>>
    /\ cache = <<>>
    /\ Like = {}
    /\ Save = {}
    /\ post_id = Unbound

Init ==
    /\ InitExt
    /\ User = Users
    /\ Follow = {}
    /\ Block = {}
    /\ Profile = [u \in Users |-> NewProfile]
    /\ pc = [t \in Threads |-> "idle"]
    /\ req = [t \in Threads |-> NoReq]
    /\ last = [req |-> NoReq, resp |-> "none"]
    /\ nops = 0

\* a request is accepted by an idle worker
Accept(t) ==
    /\ pc[t] = "idle"
    /\ nops < MaxOps
    /\ nops' = nops + 1

\* the worker sends its response
Respond(t, r, status) ==
    /\ pc' = [pc EXCEPT ![t] = "idle"]
    /\ req' = [req EXCEPT ![t] = NoReq]
    /\ last' = [req |-> r, resp |-> status]

\* the worker goes on to its next statement of request r
Goto(t, r, label) ==
    /\ pc' = [pc EXCEPT ![t] = label]
    /\ req' = [req EXCEPT ![t] = r]
    /\ UNCHANGED last

\* --------------------------------------------------------- follow_user
\* views.py follow_user, up to and including the SELECT of get_or_create.
\* The result is the response, or "create" when get_or_create goes on to
\* insert the row.
follow_user_NoSelfCheck(F, user, user_id) ==
    IF user \notin User THEN "401"
    ELSE IF user_id \notin User THEN "404"
    ELSE IF <<user, user_id>> \in F THEN "400_already"
    ELSE "create"
follow_user(F, user, user_id) ==
    IF user \notin User THEN "401"
    ELSE IF user = user_id THEN "400_self"
    ELSE IF user_id \notin User THEN "404"
    ELSE IF <<user, user_id>> \in F THEN "400_already"
    ELSE "create"

FollowRequest(t, user, user_id) ==
    LET r == [op |-> "follow", user |-> user, target |-> user_id]
        out == follow_user(Follow, user, user_id)
    IN  /\ Accept(t)
        /\ IF out = "create" THEN Goto(t, r, "follow_create") ELSE Respond(t, r, out)
        /\ UNCHANGED <<db, User, ext>>

\* get_or_create, second half: inside transaction.atomic, INSERT the row
\* and dispatch post_save.  A unique_together violation is caught and
\* answered with the existing row; any other exception leaves the view
\* (so does the foreign-key violation when one of the two users has been
\* deleted since the view looked them up).
FollowCreate(t) ==
    LET r == req[t]
        inst == <<r.user, r.target>>
    IN  /\ pc[t] = "follow_create"
        /\ IF inst \in Follow
           THEN /\ Respond(t, r, "400_already")
                /\ UNCHANGED db
           ELSE IF r.user \notin User \/ r.target \notin User
           THEN /\ Respond(t, r, "500")
                /\ UNCHANGED db
           ELSE LET h == update_follow_counts(Profile, inst, TRUE)
                IN  /\ Follow' = atomic(Follow, Follow \cup {inst}, h.raised)
                    /\ Profile' = atomic(Profile, h.Profile, h.raised)
                    /\ Respond(t, r, IF h.raised THEN "500" ELSE "201")
                    /\ UNCHANGED Block
        /\ UNCHANGED <<nops, User, ext>>

\* ------------------------------------------------------- unfollow_user
\* views.py unfollow_user: the response and the tables it leaves.
\* follow.delete() deletes the row and dispatches post_delete inside one
\* transaction.atomic block.
unfollow_user_FilterDelete(F, P, user, user_id) ==
    LET inst == <<user, user_id>>
        h == IF inst \in F THEN decrease_follow_counts(P, inst) ELSE Returned(P)
    IN  IF user \notin User THEN [status |-> "401", Follow |-> F, Profile |-> P]
        ELSE IF user_id \notin User THEN [status |-> "404", Follow |-> F, Profile |-> P]
        ELSE IF user_id = user THEN [status |-> "400_unfollow_self", Follow |-> F, Profile |-> P]
        ELSE [status |-> IF h.raised THEN "500" ELSE "204",
              Follow |-> atomic(F, F \ {inst}, h.raised),
              Profile |-> atomic(P, h.Profile, h.raised)]
unfollow_user_BlindDecrement(F, P, user, user_id) ==
    LET inst == <<user, user_id>>
    IN  IF user \notin User THEN [status |-> "401", Follow |-> F, Profile |-> P]
        ELSE IF user_id \notin User THEN [status |-> "404", Follow |-> F, Profile |-> P]
        ELSE IF user_id = user THEN [status |-> "400_unfollow_self", Follow |-> F, Profile |-> P]
        ELSE [status |-> "204",
              Follow |-> F \ {inst},
              Profile |-> [P EXCEPT ![user].following_count = @ - 1,
                                    ![user_id].followers_count = @ - 1]]
unfollow_user(F, P, user, user_id) ==
    LET inst == <<user, user_id>>
        h == decrease_follow_counts(P, inst)
    IN  IF user \notin User THEN [status |-> "401", Follow |-> F, Profile |-> P]
        ELSE IF user_id \notin User THEN [status |-> "404", Follow |-> F, Profile |-> P]
        ELSE IF user_id = user THEN [status |-> "400_unfollow_self", Follow |-> F, Profile |-> P]
        ELSE IF inst \notin F THEN [status |-> "400_not_following", Follow |-> F, Profile |-> P]
        ELSE [status |-> IF h.raised THEN "500" ELSE "204",
              Follow |-> atomic(F, F \ {inst}, h.raised),
              Profile |-> atomic(P, h.Profile, h.raised)]

UnfollowRequest(t, user, user_id) ==
    LET r == [op |-> "unfollow", user |-> user, target |-> user_id]
        out == unfollow_user(Follow, Profile, user, user_id)
    IN  /\ Accept(t)
        /\ Follow' = out.Follow
        /\ Profile' = out.Profile
        /\ Respond(t, r, out.status)
        /\ UNCHANGED <<Block, User, ext>>

\* ----------------------------------------------------------- Block.save
\* Follow.objects.filter(user=x, followed_user=y).delete(): the matching
\* row is deleted and post_delete dispatched inside one atomic block.
DeleteFollow(F, P, x, y) ==
    LET inst == <<x, y>>
        h == IF inst \in F THEN decrease_follow_counts(P, inst) ELSE Returned(P)
    IN  [raised |-> h.raised,
         Follow |-> atomic(F, F \ {inst}, h.raised),
         Profile |-> atomic(P, h.Profile, h.raised)]

\* the Block rows that Block.save calls in progress are about to insert
Saving == {<<req[t].user, req[t].target>> :
              t \in {x \in Threads : pc[x] \in {"block_delete2", "block_insert"}}}

\* Block(blocker, blocked).save(), first statement
Block_save_delete1(t, blocker, blocked) ==
    LET r == [op |-> "block", user |-> blocker, target |-> blocked]
        d == DeleteFollow(Follow, Profile, blocker, blocked)
    IN  /\ Accept(t)
        /\ blocker \in User /\ blocked \in User
        /\ Cardinality(Block \cup Saving \cup {<<blocker, blocked>>}) <= MaxBlocks
        /\ Follow' = d.Follow
        /\ Profile' = d.Profile
        /\ IF d.raised THEN Respond(t, r, "500") ELSE Goto(t, r, "block_delete2")
        /\ UNCHANGED <<Block, User, ext>>

\* second statement: the follow in the other direction
Block_save_delete2(t) ==
    LET r == req[t]
        d == DeleteFollow(Follow, Profile, r.target, r.user)
    IN  /\ pc[t] = "block_delete2"
        /\ Follow' = d.Follow
        /\ Profile' = d.Profile
        /\ IF d.raised THEN Respond(t, r, "500") ELSE Goto(t, r, "block_insert")
        /\ UNCHANGED <<Block, nops, User, ext>>

\* super().save(): INSERT of the new row; unique_together on the pair and
\* the foreign keys to User
Block_save_insert(t) ==
    LET r == req[t]
        row == <<r.user, r.target>>
    IN  /\ pc[t] = "block_insert"
        /\ IF row \in Block \/ r.user \notin User \/ r.target \notin User
           THEN /\ Respond(t, r, "integrity_error")
                /\ UNCHANGED Block
           ELSE /\ Block' = Block \cup {row}
                /\ Respond(t, r, "saved")
        /\ UNCHANGED <<Follow, Profile, nops, User, ext>>

\* --------------------------------------------------------- Block.delete
\* Deleting a stored Block row (Model.delete, as the admin's delete action
\* of BlockAdmin does): the model overrides save only and has no
\* post_delete receiver, so the row is removed and nothing else is touched.
Block_delete_RestoresFollow(F, B, blocker, blocked) ==
    [Block |-> B \ {<<blocker, blocked>>}, Follow |-> F \cup {<<blocked, blocker>>}]
Block_delete(F, B, blocker, blocked) ==
    [Block |-> B \ {<<blocker, blocked>>}, Follow |-> F]

BlockDelete(t, blocker, blocked) ==
    LET r == [op |-> "unblock", user |-> blocker, target |-> blocked]
        out == Block_delete(Follow, Block, blocker, blocked)
    IN  /\ Accept(t)
        /\ <<blocker, blocked>> \in Block
        /\ Block' = out.Block
        /\ Follow' = out.Follow
        /\ Respond(t, r, "deleted")
        /\ UNCHANGED <<Profile, User, ext>>

\* ---------------------------------------------------------- User.delete
\* post_delete of every Follow row in rows, one after the other
RECURSIVE DispatchDeletes(_, _)
DispatchDeletes(P, rows) ==
    IF rows = {} THEN Returned(P)
    ELSE LET e == CHOOSE x \in rows : TRUE
             h == decrease_follow_counts(P, e)
         IN  IF h.raised THEN h ELSE DispatchDeletes(h.Profile, rows \ {e})

\* UserViewSet.destroy -> User.delete(): one atomic block that deletes the
\* rows cascading from the user.  Profile and Block rows have no receivers
\* and are deleted first; Follow rows are deleted with post_delete
\* dispatched for each; the User row goes last.
User_delete_KeepsBlocks(U, F, B, P, u) ==
    LET rows == {e \in F : e[1] = u \/ e[2] = u}
        P0 == [x \in DOMAIN P \ {u} |-> P[x]]
        h == DispatchDeletes(P0, rows)
    IN  [status |-> IF h.raised THEN "500" ELSE "204",
         User |-> atomic(U, U \ {u}, h.raised),
         Follow |-> atomic(F, F \ rows, h.raised),
         Block |-> B,
         Profile |-> atomic(P, h.Profile, h.raised)]
User_delete(U, F, B, P, u) ==
    LET rows == {e \in F : e[1] = u \/ e[2] = u}
        P0 == [x \in DOMAIN P \ {u} |-> P[x]]
        h == DispatchDeletes(P0, rows)
    IN  [status |-> IF h.raised THEN "500" ELSE "204",
         User |-> atomic(U, U \ {u}, h.raised),
         Follow |-> atomic(F, F \ rows, h.raised),
         Block |-> atomic(B, {e \in B : e[1] # u /\ e[2] # u}, h.raised),
         Profile |-> atomic(P, h.Profile, h.raised)]

\* the rows of table f whose key is in S
Restrict(f, S) == [x \in DOMAIN f \cap S |-> f[x]]

UserDelete(t, u) ==
    LET r == [op |-> "delete_user", user |-> u, target |-> u]
        out == User_delete(User, Follow, Block, Profile, u)
    IN  /\ Accept(t)
        /\ u \in User
        /\ User' = out.User
        /\ Follow' = out.Follow
        /\ Block' = out.Block
        /\ Profile' = out.Profile
        /\ username' = Restrict(username, out.User)
        /\ ProfileKey' = Restrict(ProfileKey, DOMAIN out.Profile)
        /\ BlockRows' = SelectSeq(BlockRows, LAMBDA e : e \in out.Block)
        /\ Stream' = [i \in {x \in DOMAIN Stream : Stream[x].user \in out.User} |-> Stream[i]]
        /\ Like' = {e \in Like : e[2] \in out.User}
        /\ Save' = {e \in Save : e[2] \in out.User}
        /\ UNCHANGED <<cache, post_id>>
        /\ Respond(t, r, out.status)

\* ---------------------------------------------------------- read paths
\* ProfileDetailView.check_blocked: the 403 response, or "none"
check_blocked_OneDirection(B, user, target_user) ==
    IF <<user, target_user>> \in B THEN "403_you_blocked"
    ELSE "none"
check_blocked(B, user, target_user) ==
    IF <<user, target_user>> \in B THEN "403_you_blocked"
    ELSE IF <<target_user, user>> \in B THEN "403_blocked_by"
    ELSE "none"

\* ProfileDetailView.get: identifier is the id or slug of a Profile, here
\* the id of the profile's user when a Profile matches
ProfileDetailView_get(U, P, B, user, identifier) ==
    IF user \notin U THEN "401"
    ELSE IF identifier \notin DOMAIN P THEN "404"
    ELSE LET block_response == check_blocked(B, user, identifier)
         IN  IF block_response # "none" THEN block_response ELSE "200"

ProfileDetailGet(t, user, identifier) ==
    LET r == [op |-> "detail", user |-> user, target |-> identifier]
    IN  /\ Accept(t)
        /\ nops < MaxCalls
        /\ Respond(t, r, ProfileDetailView_get(User, Profile, Block, user, identifier))
        /\ UNCHANGED <<db, User, ext>>

\* Profile.can_follow(user) of the profile of owner
can_follow(P, B, owner, user) ==
    IF P[owner].is_private /\ P[owner].who_can_follow = "NONE"
    THEN FALSE
    ELSE <<user, owner>> \notin B

CanFollowCall(t, owner, user) ==
    LET r == [op |-> "can_follow", user |-> user, target |-> owner]
    IN  /\ Accept(t)
        /\ nops < MaxCalls
        /\ owner \in DOMAIN Profile /\ user \in User
        /\ Respond(t, r, IF can_follow(Profile, Block, owner, user) THEN "True" ELSE "False")
        /\ UNCHANGED <<db, User, ext>>

\* ------------------------------------------------------------------ Next
Next ==
    \/ \E t \in Threads, u \in Users \cup {Anonymous}, id \in Users \cup {MissingId} :
          FollowRequest(t, u, id)
    \/ \E t \in Threads : FollowCreate(t)
    \/ \E t \in Threads, u \in Users \cup {Anonymous}, id \in Users \cup {MissingId} :
          UnfollowRequest(t, u, id)
    \/ \E t \in Threads, a \in Users, b \in Users : Block_save_delete1(t, a, b)
    \/ \E t \in Threads : Block_save_delete2(t)
    \/ \E t \in Threads : Block_save_insert(t)

Spec == Init /\ [][Next]_vars

\* the same requests together with the deletion of Block rows and of users
NextAdmin ==
    \/ \E t \in Threads, u \in Users \cup {Anonymous}, id \in Users \cup {MissingId} :
          FollowRequest(t, u, id)
    \/ \E t \in Threads : FollowCreate(t)
    \/ \E t \in Threads, u \in Users \cup {Anonymous}, id \in Users \cup {MissingId} :
          UnfollowRequest(t, u, id)
    \/ \E t \in Threads, a \in Users, b \in Users : Block_save_delete1(t, a, b)
    \/ \E t \in Threads : Block_save_delete2(t)
    \/ \E t \in Threads : Block_save_insert(t)
    \/ \E t \in Threads, a \in Users, b \in Users : BlockDelete(t, a, b)
    \/ \E t \in Threads, u \in Users : UserDelete(t, u)

SpecAdmin == Init /\ [][NextAdmin]_vars

\* The read paths and the follow request, called on a store that holds
\* some Block rows (saved by Block.save) and in which the privacy fields of
\* one profile may have been edited (ProfileAdmin).
InitRead ==
    /\ InitExt
    /\ User = Users
    /\ Follow = {}
    /\ Block \in {B \in SUBSET (Users \X Users) : Cardinality(B) <= MaxBlocks}
    /\ \E p \in Users, priv \in BOOLEAN, wcf \in {"ALL", "NONE"} :
          Profile = [u \in Users |->
                        IF u = p
                        THEN [NewProfile EXCEPT !.is_private = priv, !.who_can_follow = wcf]
                        ELSE NewProfile]
    /\ pc = [t \in Threads |-> "idle"]
    /\ req = [t \in Threads |-> NoReq]
    /\ last = [req |-> NoReq, resp |-> "none"]
    /\ nops = 0

NextRead ==
    \/ \E u \in Users \cup {Anonymous}, id \in Users \cup {MissingId} :
          ProfileDetailGet("t1", u, id)
    \/ \E owner \in Users, u \in Users : CanFollowCall("t1", owner, u)
    \/ \E u \in Users \cup {Anonymous}, id \in Users \cup {MissingId} :
          nops < MaxCalls /\ FollowRequest("t1", u, id)
    \/ FollowCreate("t1")

SpecRead == InitRead /\ [][NextRead]_vars

\* ------------------------------------------------- users and profiles
\* usernames a client signs up with, and django.utils.text.slugify of each:
\* lower-cased, runs of spaces and hyphens turned into one hyphen
Names == {"ann", "a b", "a-b"}
slugify(name) == IF name = "a b" THEN "a-b" ELSE name

\* Profile.objects.create(user, username, name) -> Profile.save(): the slug
\* is slugify(username); the INSERT fails on the unique columns user,
\* username and slug
Profile_create(P, K, user, name) ==
    LET key == [username |-> name, slug |-> slugify(name)]
        clash == \/ user \in DOMAIN P
                 \/ \E x \in DOMAIN K : K[x].username = key.username \/ K[x].slug = key.slug
    IN  IF clash
        THEN [raised |-> TRUE, Profile |-> P, ProfileKey |-> K]
        ELSE [raised |-> FALSE,
              Profile |-> [x \in DOMAIN P \cup {user} |-> IF x = user THEN NewProfile ELSE P[x]],
              ProfileKey |-> [x \in DOMAIN K \cup {user} |-> IF x = user THEN key ELSE K[x]]]

\* the post_save receivers of User, in the order they are connected:
\* create_user_profile, then save_user_profile.  A receiver that raises
\* ends the dispatch; the User row was written before it.
User_post_save(P, K, user, name, created) ==
    LET c == IF created THEN Profile_create(P, K, user, name)
             ELSE [raised |-> FALSE, Profile |-> P, ProfileKey |-> K]
    IN  IF c.raised THEN c
        ELSE IF user \in DOMAIN c.Profile
             THEN c   \* instance.profiles.save() rewrites the row it read
             ELSE Profile_create(c.Profile, c.ProfileKey, user, name)

\* SignUpView.post: the serializer's UniqueValidator, User.objects.create
\* with its post_save, then set_password and user.save() with its post_save
SignUp(t, name) ==
    LET id == Cardinality(User) + 1
        r == [op |-> "signup", user |-> Anonymous, target |-> id]
        taken == \E u \in User : username[u] = name
        s1 == User_post_save(Profile, ProfileKey, id, name, TRUE)
        s2 == User_post_save(s1.Profile, s1.ProfileKey, id, name, FALSE)
    IN  /\ Accept(t)
        /\ id \in Users
        /\ IF taken
           THEN /\ Respond(t, r, "400_username")
                /\ UNCHANGED <<User, username, Profile, ProfileKey>>
           ELSE /\ User' = User \cup {id}
                /\ username' = [u \in User \cup {id} |-> IF u = id THEN name ELSE username[u]]
                /\ IF s1.raised
                   THEN /\ Profile' = s1.Profile /\ ProfileKey' = s1.ProfileKey
                        /\ Respond(t, r, "500")
                   ELSE /\ Profile' = s2.Profile /\ ProfileKey' = s2.ProfileKey
                        /\ Respond(t, r, IF s2.raised THEN "500" ELSE "201")
        /\ UNCHANGED <<Follow, Block, BlockRows, Stream, cache, Like, Save, post_id>>

\* any later user.save() of a stored User (UserViewSet.update with the
\* username it has, SetNewPasswordSerializer.save)
UserSave(t, u) ==
    LET r == [op |-> "save_user", user |-> u, target |-> u]
        s1 == User_post_save(Profile, ProfileKey, u, username[u], FALSE)
    IN  /\ Accept(t)
        /\ u \in User
        /\ Profile' = s1.Profile /\ ProfileKey' = s1.ProfileKey
        /\ Respond(t, r, IF s1.raised THEN "500" ELSE "200")
        /\ UNCHANGED <<User, username, Follow, Block, BlockRows, Stream, cache, Like, Save, post_id>>

\* UserViewSet.update with a new username: UniqueValidator, user.save()
\* and its post_save.  Profile.username keeps the old name.
UserRename(t, u, name) ==
    LET r == [op |-> "rename_user", user |-> u, target |-> u]
        taken == \E x \in User \ {u} : username[x] = name
        s1 == User_post_save(Profile, ProfileKey, u, name, FALSE)
    IN  /\ Accept(t)
        /\ u \in User
        /\ username[u] # name
        /\ IF taken
           THEN /\ Respond(t, r, "400_username")
                /\ UNCHANGED <<username, Profile, ProfileKey>>
           ELSE /\ username' = [username EXCEPT ![u] = name]
                /\ Profile' = s1.Profile /\ ProfileKey' = s1.ProfileKey
                /\ Respond(t, r, IF s1.raised THEN "500" ELSE "200")
        /\ UNCHANGED <<User, Follow, Block, BlockRows, Stream, cache, Like, Save, post_id>>

\* ------------------------------------------------------ profile writers
\* the model fields ProfileSerializer writes, of those modelled: the two
\* counters are SerializerMethodFields, which are read-only
ProfileSerializer_writable_WithCounters == {"bio", "followers_count"}
ProfileSerializer_writable == {"bio"}

\* request bodies of a profile edit
EditData == {[bio |-> "hi", followers_count |-> 7]}

\* ProfileSerializer(profile, data).save(): every writable key of the data
\* is set on the instance, then instance.save()
ProfileSerializer_save(row, data) ==
    [k \in DOMAIN row |->
        IF k \in DOMAIN data /\ k \in ProfileSerializer_writable THEN data[k] ELSE row[k]]

\* ProfileEditView.put, for a body that validates
ProfileEditView_put(U, P, user, slug, data) ==
    IF user \notin U THEN [status |-> "401", Profile |-> P]
    ELSE IF slug \notin DOMAIN P THEN [status |-> "404", Profile |-> P]
    ELSE IF slug # user THEN [status |-> "403", Profile |-> P]
    ELSE [status |-> "200",
          Profile |-> [P EXCEPT ![slug] = ProfileSerializer_save(P[slug], data)]]

ProfileEdit(t, user, slug, data) ==
    LET r == [op |-> "edit", user |-> user, target |-> slug]
        out == ProfileEditView_put(User, Profile, user, slug, data)
    IN  /\ Accept(t)
        /\ Profile' = out.Profile
        /\ Respond(t, r, out.status)
        /\ UNCHANGED <<Follow, Block, User, ext>>

\* Profile.update_counters(): recounts from the Follow rows, then reads
\* self.user.posts and saves.  Post.user has no related_name, so User has
\* no attribute posts and the method raises before save().
update_counters(P, F, u) ==
    IF "posts" \notin UserAccessors
    THEN Raised(P)
    ELSE Returned([P EXCEPT ![u].followers_count = Cardinality({e \in F : e[2] = u}),
                            ![u].following_count = Cardinality({e \in F : e[1] = u})])

UpdateCounters(t, u) ==
    LET r == [op |-> "update_counters", user |-> u, target |-> u]
        h == update_counters(Profile, Follow, u)
    IN  /\ Accept(t)
        /\ u \in DOMAIN Profile
        /\ Profile' = h.Profile
        /\ Respond(t, r, IF h.raised THEN "AttributeError" ELSE "None")
        /\ UNCHANGED <<Follow, Block, User, ext>>

\* the operations that touch a Profile row, one at a time
NextProfile ==
    \/ \E u \in Users \cup {Anonymous}, id \in Users \cup {MissingId} :
          FollowRequest("t1", u, id)
    \/ FollowCreate("t1")
    \/ \E a \in Users, b \in Users : Block_save_delete1("t1", a, b)
    \/ Block_save_delete2("t1")
    \/ Block_save_insert("t1")
    \/ \E a \in Users, b \in Users : BlockDelete("t1", a, b)
    \/ \E u \in Users \cup {Anonymous}, p \in Users \cup {MissingId}, data \in EditData :
          ProfileEdit("t1", u, p, data)
    \/ \E u \in Users : UpdateCounters("t1", u)
    \/ \E u \in Users : UserSave("t1", u)
    \/ \E u \in Users \cup {Anonymous}, id \in Users \cup {MissingId} :
          ProfileDetailGet("t1", u, id)

SpecProfile == Init /\ [][NextProfile]_vars

\* ------------------------------------------------------ BlockedListView
\* the orders in which a SELECT without ORDER BY can return the rows S
Orders(S) ==
    {f \in [1..Cardinality(S) -> S] : \A i, j \in 1..Cardinality(S) : i # j => f[i] # f[j]}

\* BlockedListView.get: Block.objects.filter(blocker=request.user), with no
\* order_by and no Meta.ordering on Block; the usernames of the blocked
\* users in the order the rows come back.  The set of possible responses.
BlockedListView_get(U, B, names, user) ==
    IF user \notin U THEN {"401"}
    ELSE {[i \in DOMAIN f |-> names[f[i][2]]] : f \in Orders({e \in B : e[1] = user})}

BlockedList(t, user) ==
    LET r == [op |-> "blocked_list", user |-> user, target |-> user]
    IN  /\ Accept(t)
        /\ \E resp \in BlockedListView_get(User, Block, username, user) :
              Respond(t, r, resp)
        /\ UNCHANGED <<db, User, ext>>

\* Block tables of up to MaxRows rows, in the order they were created
InitList ==
    /\ username = [u \in Users |-> ToString(u)]
    /\ ProfileKey = [u \in Users |-> [username |-> ToString(u), slug |-> ToString(u)]]
    /\ Stream = <<>> /\ cache = <<>>
    /\ Like = {} /\ Save = {} /\ post_id = Unbound
    /\ User = Users
    /\ Follow = {}
    /\ \E n \in 0..MaxRows :
          BlockRows \in {q \in [1..n -> Users \X Users] :
                            \A i, j \in 1..n : i # j => q[i] # q[j]}
    /\ Block = {BlockRows[i] : i \in DOMAIN BlockRows}
    /\ Profile = [u \in Users |-> NewProfile]
    /\ pc = [t \in Threads |-> "idle"]
    /\ req = [t \in Threads |-> NoReq]
    /\ last = [req |-> NoReq, resp |-> "none"]
    /\ nops = 0

NextList ==
    \E u \in Users \cup {Anonymous} : BlockedList("t1", u)

SpecList == InitList /\ [][NextList]_vars

\* ---------------------------------------------------------- live.Stream
StreamIds == 1..MaxStreams
Titles == {"a", "b"}

\* Stream.objects.create(user, stream_title): the field defaults
NewStream(user, title) ==
    [user |-> user, stream_title |-> title, is_active |-> FALSE, status |-> "PL",
     started_at |-> "null", ended_at |-> "null"]

\* Stream.start_stream on the instance row; save() writes the whole row
start_stream_NoStatusCheck(row) ==
    [raised |-> FALSE,
     row |-> [row EXCEPT !.is_active = TRUE, !.status = "LV", !.started_at = "now"]]
start_stream(row) ==
    IF row.status # "PL"
    THEN [raised |-> TRUE, row |-> row]
    ELSE [raised |-> FALSE,
          row |-> [row EXCEPT !.is_active = TRUE, !.status = "LV", !.started_at = "now"]]

\* Stream.end_stream
end_stream(row) ==
    [row EXCEPT !.is_active = FALSE, !.status = "EN", !.ended_at = "now"]

\* Stream.objects.get(id=id).start_stream()
StartStream(t, id) ==
    LET r == [op |-> "start_stream", user |-> Anonymous, target |-> id]
        out == start_stream(Stream[id])
    IN  /\ Accept(t)
        /\ id \in DOMAIN Stream
        /\ Stream' = [Stream EXCEPT ![id] = out.row]
        /\ Respond(t, r, IF out.raised THEN "ValidationError" ELSE "None")
        /\ UNCHANGED <<db, User, username, ProfileKey, BlockRows, cache, Like, Save, post_id>>

\* Stream.objects.get(id=id).end_stream()
EndStream(t, id) ==
    LET r == [op |-> "end_stream", user |-> Anonymous, target |-> id]
    IN  /\ Accept(t)
        /\ id \in DOMAIN Stream
        /\ Stream' = [Stream EXCEPT ![id] = end_stream(Stream[id])]
        /\ Respond(t, r, "None")
        /\ UNCHANGED <<db, User, username, ProfileKey, BlockRows, cache, Like, Save, post_id>>

\* the keys StreamSerializer drops from its input: read_only fields
StreamSerializer_read_only == {"user", "stream_key", "started_at", "ended_at"}

\* StreamStartView.post: the serializer is given user, stream_key and
\* is_active = True next to the body; create() gets what is left of them
\* after the read_only fields are dropped.  Without user the INSERT fails
\* on the NOT NULL column and the view's except answers 500.
StreamStartView_post(S, C, user, title) ==
    LET data == [stream_title |-> title, stream_key |-> "uuid", is_active |-> TRUE, user |-> user]
        validated == {k \in DOMAIN data : k \notin StreamSerializer_read_only}
        id == Cardinality(DOMAIN S) + 1
        row == [NewStream(user, title) EXCEPT !.is_active = data.is_active]
    IN  IF user \notin User THEN [status |-> "401", Stream |-> S, cache |-> C]
        ELSE IF "user" \notin validated \/ id \notin StreamIds
        THEN [status |-> "500", Stream |-> S, cache |-> C]
        ELSE [status |-> "201",
              Stream |-> [i \in DOMAIN S \cup {id} |-> IF i = id THEN row ELSE S[i]],
              cache |-> [i \in DOMAIN C \cup {id} |-> IF i = id THEN row ELSE C[i]]]

StreamStart(t, user, title) ==
    LET r == [op |-> "start", user |-> user, target |-> Anonymous]
        out == StreamStartView_post(Stream, cache, user, title)
    IN  /\ Accept(t)
        /\ Stream' = out.Stream
        /\ cache' = out.cache
        /\ Respond(t, r, out.status)
        /\ UNCHANGED <<db, User, username, ProfileKey, BlockRows, Like, Save, post_id>>

\* BaseStreamView.get_stream: the cached copy if there is one, else the
\* stored row, which is then cached
get_stream(S, C, id) ==
    IF id \in DOMAIN C THEN [found |-> TRUE, stream |-> C[id], cache |-> C]
    ELSE IF id \in DOMAIN S
    THEN [found |-> TRUE, stream |-> S[id],
          cache |-> [i \in DOMAIN C \cup {id} |-> IF i = id THEN S[id] ELSE C[i]]]
    ELSE [found |-> FALSE, stream |-> NewStream(Anonymous, "a"), cache |-> C]

\* StreamStopView.post.  Http404 from get_stream is caught by the view's
\* except Exception and answered 500.  stream.save() writes every field of
\* the object get_stream returned.
StreamStopView_post(S, C, user, id) ==
    LET g == get_stream(S, C, id)
    IN  IF user \notin User THEN [status |-> "401", Stream |-> S, cache |-> C]
        ELSE IF ~g.found THEN [status |-> "500", Stream |-> S, cache |-> g.cache]
        ELSE IF g.stream.user # user THEN [status |-> "403", Stream |-> S, cache |-> g.cache]
        ELSE IF ~g.stream.is_active
        THEN [status |-> "400_stopped", Stream |-> S, cache |-> g.cache]
        ELSE [status |-> "200",
              Stream |-> [S EXCEPT ![id] = [g.stream EXCEPT !.is_active = FALSE]],
              cache |-> [i \in DOMAIN g.cache \ {id} |-> g.cache[i]]]

StreamStop(t, user, id) ==
    LET r == [op |-> "stop", user |-> user, target |-> id]
        out == StreamStopView_post(Stream, cache, user, id)
    IN  /\ Accept(t)
        /\ Stream' = out.Stream
        /\ cache' = out.cache
        /\ Respond(t, r, out.status)
        /\ UNCHANGED <<db, User, username, ProfileKey, BlockRows, Like, Save, post_id>>

\* StreamViewSet.partial_update with a new stream_title: any authenticated
\* user, the stored row only
StreamUpdate(t, user, id, title) ==
    LET r == [op |-> "update", user |-> user, target |-> id]
    IN  /\ Accept(t)
        /\ user \in User
        /\ id \in DOMAIN Stream
        /\ Stream[id].stream_title # title
        /\ Stream' = [Stream EXCEPT ![id].stream_title = title]
        /\ Respond(t, r, "200")
        /\ UNCHANGED <<db, User, username, ProfileKey, BlockRows, cache, Like, Save, post_id>>

\* a cache entry reaches its timeout of 300 s
CacheExpire(id) ==
    /\ id \in DOMAIN cache
    /\ cache' = [i \in DOMAIN cache \ {id} |-> cache[i]]
    /\ UNCHANGED <<db, User, username, ProfileKey, BlockRows, Stream, Like, Save, post_id,
                   pc, req, last, nops>>

\* the streams stored at the start: created, started, ended or suspended
\* ones
StreamRows ==
    {NewStream(u, "a") : u \in Users}
    \cup {[NewStream(u, "a") EXCEPT !.status = "SP"] : u \in Users}
    \cup {start_stream(NewStream(u, "a")).row : u \in Users}
    \cup {end_stream(start_stream(NewStream(u, "a")).row) : u \in Users}

InitLive ==
    /\ username = [u \in Users |-> ToString(u)]
    /\ ProfileKey = [u \in Users |-> [username |-> ToString(u), slug |-> ToString(u)]]
    /\ BlockRows = <<>>
    /\ \E n \in 0..MaxStreams : Stream \in [1..n -> StreamRows]
    /\ cache = <<>>
    /\ Like = {} /\ Save = {} /\ post_id = Unbound
    /\ User = Users
    /\ Follow = {} /\ Block = {}
    /\ Profile = [u \in Users |-> NewProfile]
    /\ pc = [t \in Threads |-> "idle"]
    /\ req = [t \in Threads |-> NoReq]
    /\ last = [req |-> NoReq, resp |-> "none"]
    /\ nops = 0

NextLive ==
    \/ \E u \in Users \cup {Anonymous}, title \in Titles : StreamStart("t1", u, title)
    \/ \E u \in Users \cup {Anonymous}, id \in StreamIds \cup {MaxStreams + 1} :
          StreamStop("t1", u, id)
    \/ \E id \in StreamIds : StartStream("t1", id)
    \/ \E id \in StreamIds : EndStream("t1", id)
    \/ \E u \in Users, id \in StreamIds, title \in Titles : StreamUpdate("t1", u, id, title)
    \/ \E id \in StreamIds : CacheExpire(id)

SpecLive == InitLive /\ [][NextLive]_vars

\* ------------------------------------------------- post.Like, post.Save
Posts == 1..MaxPosts
\* a 'post' in the request body for which no Post row exists
MissingPost == MaxPosts + 1

\* LikeCreateDestroyView.post.  The module global post_id is bound to the
\* body's 'post' before the Post is looked up; Post.DoesNotExist is not
\* caught and is answered 500.
LikeCreateDestroyView_post(L, g, user, post) ==
    IF user \notin User THEN [status |-> "401", Like |-> L, post_id |-> g]
    ELSE IF post \notin Posts THEN [status |-> "500", Like |-> L, post_id |-> post]
    ELSE IF <<post, user>> \in L THEN [status |-> "200", Like |-> L, post_id |-> post]
    ELSE [status |-> "201", Like |-> L \cup {<<post, user>>}, post_id |-> post]

\* LikeCreateDestroyView.delete reads the module global post_id; the request
\* carries no post.  NameError (global never bound) and Post.DoesNotExist
\* are answered 500.
LikeCreateDestroyView_delete(L, g, user) ==
    IF user \notin User THEN [status |-> "401", Like |-> L]
    ELSE IF g = Unbound \/ g \notin Posts THEN [status |-> "500", Like |-> L]
    ELSE IF <<g, user>> \in L THEN [status |-> "204", Like |-> L \ {<<g, user>>}]
    ELSE [status |-> "404", Like |-> L]

\* SavePostView.post binds the same global
SavePostView_post(V, g, user, post) ==
    IF user \notin User THEN [status |-> "401", Save |-> V, post_id |-> g]
    ELSE IF post \notin Posts THEN [status |-> "500", Save |-> V, post_id |-> post]
    ELSE IF <<post, user>> \in V THEN [status |-> "200", Save |-> V, post_id |-> post]
    ELSE [status |-> "201", Save |-> V \cup {<<post, user>>}, post_id |-> post]

SavePostView_delete(V, g, user) ==
    IF user \notin User THEN [status |-> "401", Save |-> V]
    ELSE IF g = Unbound \/ g \notin Posts THEN [status |-> "500", Save |-> V]
    ELSE IF <<g, user>> \in V THEN [status |-> "204", Save |-> V \ {<<g, user>>}]
    ELSE [status |-> "404", Save |-> V]

\* a client t has had its like of a post answered and has sent nothing since
Liked(t) == pc[t] = "liked"

\* no client other than t is acting for user
OnlyClient(t, user) == \A o \in Threads \ {t} : Liked(o) => req[o].user # user

\* POST post/like/ by client t for user; a like that was answered 201 or
\* 200 is remembered by the client
LikePost(t, user, post) ==
    LET r == [op |-> "like", user |-> user, target |-> post]
        out == LikeCreateDestroyView_post(Like, post_id, user, post)
    IN  /\ Accept(t)
        /\ OnlyClient(t, user)
        /\ Like' = out.Like
        /\ post_id' = out.post_id
        /\ IF out.status \in {"200", "201"}
           THEN /\ pc' = [pc EXCEPT ![t] = "liked"]
                /\ req' = [req EXCEPT ![t] = r]
           ELSE /\ pc' = [pc EXCEPT ![t] = "idle"]
                /\ req' = [req EXCEPT ![t] = NoReq]
        /\ last' = [req |-> r, resp |-> out.status]
        /\ UNCHANGED <<db, User, username, ProfileKey, BlockRows, Stream, cache, Save>>

\* DELETE post/like/ by client t for user: the client's next request after
\* its like, or a request of a client that has liked nothing
LikeDelete(t, user) ==
    LET r == [op |-> "unlike", user |-> user, target |-> Anonymous]
        out == LikeCreateDestroyView_delete(Like, post_id, user)
    IN  /\ nops < MaxOps
        /\ nops' = nops + 1
        /\ \/ Liked(t) /\ req[t].user = user
           \/ pc[t] = "idle" /\ OnlyClient(t, user)
        /\ Like' = out.Like
        /\ Respond(t, r, out.status)
        /\ UNCHANGED <<db, User, username, ProfileKey, BlockRows, Stream, cache, Save,
                       post_id>>

\* POST post/save/ by an idle client t for user
SavePost(t, user, post) ==
    LET r == [op |-> "save", user |-> user, target |-> post]
        out == SavePostView_post(Save, post_id, user, post)
    IN  /\ Accept(t)
        /\ OnlyClient(t, user)
        /\ Save' = out.Save
        /\ post_id' = out.post_id
        /\ Respond(t, r, out.status)
        /\ UNCHANGED <<db, User, username, ProfileKey, BlockRows, Stream, cache, Like>>

\* DELETE post/save/ by an idle client t for user
SaveDelete(t, user) ==
    LET r == [op |-> "unsave", user |-> user, target |-> Anonymous]
        out == SavePostView_delete(Save, post_id, user)
    IN  /\ Accept(t)
        /\ OnlyClient(t, user)
        /\ Save' = out.Save
        /\ Respond(t, r, out.status)
        /\ UNCHANGED <<db, User, username, ProfileKey, BlockRows, Stream, cache, Like,
                       post_id>>

\* the worker process has just been started: post_id is unbound
InitPost ==
    /\ InitExt
    /\ User = Users
    /\ Follow = {} /\ Block = {}
    /\ Profile = [u \in Users |-> NewProfile]
    /\ pc = [t \in Threads |-> "idle"]
    /\ req = [t \in Threads |-> NoReq]
    /\ last = [req |-> NoReq, resp |-> "none"]
    /\ nops = 0

NextPost ==
    \/ \E t \in Threads, u \in Users \cup {Anonymous}, p \in Posts \cup {MissingPost} :
          LikePost(t, u, p)
    \/ \E t \in Threads, u \in Users \cup {Anonymous} : LikeDelete(t, u)
    \/ \E t \in Threads, u \in Users \cup {Anonymous}, p \in Posts \cup {MissingPost} :
          SavePost(t, u, p)
    \/ \E t \in Threads, u \in Users \cup {Anonymous} : SaveDelete(t, u)

SpecPost == InitPost /\ [][NextPost]_vars

\* the User and Profile tables are empty before the first sign-up
InitUser ==
    /\ User = {}
    /\ username = <<>>
    /\ Profile = <<>>
    /\ ProfileKey = <<>>
    /\ Follow = {} /\ Block = {} /\ BlockRows = <<>>
    /\ Stream = <<>> /\ cache = <<>>
    /\ Like = {} /\ Save = {} /\ post_id = Unbound
    /\ pc = [t \in Threads |-> "idle"]
    /\ req = [t \in Threads |-> NoReq]
    /\ last = [req |-> NoReq, resp |-> "none"]
    /\ nops = 0

NextUser ==
    \/ \E t \in Threads, name \in Names : SignUp(t, name)
    \/ \E t \in Threads, u \in Users : UserSave(t, u)
    \/ \E t \in Threads, u \in Users, name \in Names : UserRename(t, u, name)

SpecUser == InitUser /\ [][NextUser]_vars

TypeOK ==
    /\ User \subseteq Users
    /\ Follow \subseteq (Users \X Users)
    /\ Block \subseteq (Users \X Users)
    /\ \A u \in DOMAIN Profile :
          /\ Profile[u].followers_count \in Int /\ Profile[u].following_count \in Int
          /\ Profile[u].is_private \in BOOLEAN
          /\ Profile[u].who_can_follow \in {"ALL", "NONE"}
    /\ nops \in 0..MaxOps

\* ------------------------------------------------- observing the requests
\* no request is being served
Quiescent == \A t \in Threads : pc[t] = "idle"

\* this step accepts request r
Received(r) ==
    /\ nops' = nops + 1
    /\ \E t \in Threads :
          /\ pc[t] = "idle"
          /\ \/ pc'[t] # "idle" /\ req'[t] = r
             \/ pc' = pc /\ last'.req = r

\* this step answers request r with status s
Served(r, s) ==
    /\ last' = [req |-> r, resp |-> s]
    /\ \/ nops' = nops + 1 /\ pc' = pc
       \/ \E t \in Threads : pc[t] # "idle" /\ pc'[t] = "idle" /\ req[t] = r

FollowReq(a, b) == [op |-> "follow", user |-> a, target |-> b]
UnfollowReq(a, b) == [op |-> "unfollow", user |-> a, target |-> b]
BlockReq(a, b) == [op |-> "block", user |-> a, target |-> b]

Blocked(a, b) == <<a, b>> \in Block \/ <<b, a>> \in Block

\* ----------------------------------------------------------------- claims

\* C1: no pair of users has a Follow edge (a follows b) together with a
\* Block edge between them in either direction, in any reachable state.
C1_MutualExclusion ==
    \A e \in Follow : <<e[1], e[2]>> \notin Block /\ <<e[2], e[1]>> \notin Block

\* a follow request between two users with a Block edge between them has
\* been served
C1_Witness ==
    /\ last.req.op = "follow"
    /\ last.req.user \in Users /\ last.req.target \in Users
    /\ last.req.user # last.req.target
    /\ Blocked(last.req.user, last.req.target)
    /\ last.resp = "500"
    /\ Follow = {}

\* C2: the stored followers_count of every user equals the number of Follow
\* edges whose followed_user it is, and following_count the number of
\* Follow edges whose user it is.
C2_CounterInvariant ==
    \A b \in Users :
        /\ Profile[b].followers_count = Cardinality({e \in Follow : e[2] = b})
        /\ Profile[b].following_count = Cardinality({e \in Follow : e[1] = b})

\* the latest of several requests, a follow between distinct users, went
\* through get_or_create's INSERT
C2_Witness ==
    /\ nops >= 2
    /\ Quiescent
    /\ last.req.op = "follow"
    /\ last.req.user # last.req.target
    /\ last.resp = "500"
    /\ Profile[last.req.target].followers_count = 0

\* C3: when Block(blocker=a, blocked=b).save() completes successfully for
\* distinct a, b, neither Follow edge (a, b) nor (b, a) exists.
C3_BlockRemovesFollows ==
    [][\A t \in Threads :
          (/\ pc[t] = "block_insert"
           /\ pc'[t] = "idle"
           /\ last'.resp = "saved"
           /\ req[t].user # req[t].target)
          => /\ <<req[t].user, req[t].target>> \notin Follow'
             /\ <<req[t].target, req[t].user>> \notin Follow']_vars

\* a Block between distinct users was saved while a follow request of the
\* blocked user for the blocker was being served
C3_Witness ==
    /\ last.req.op = "block" /\ last.resp = "saved"
    /\ last.req.user # last.req.target
    /\ \E t \in Threads :
          /\ pc[t] = "follow_create"
          /\ req[t] = [op |-> "follow", user |-> last.req.target, target |-> last.req.user]
    /\ <<last.req.user, last.req.target>> \notin Follow
    /\ <<last.req.target, last.req.user>> \notin Follow

\* C4: a follow request from a to b received while a Block edge exists
\* between a and b (either direction) is answered with a blocked error and
\* changes no Follow edge and no counter.
C4_FollowWhileBlockedRejected ==
    [][\A a \in Users, b \in Users :
          (a # b /\ Blocked(a, b) /\ Received(FollowReq(a, b)))
          => /\ Served(FollowReq(a, b), "403_blocked")
             /\ UNCHANGED db]_vars

\* C5: a follow request of a user for itself is answered 400 at once and
\* changes nothing; no Follow edge with user = followed_user is ever stored.
C5_SelfFollowRejected ==
    [][/\ \A a \in Users :
             Received(FollowReq(a, a))
             => Served(FollowReq(a, a), "400_self") /\ UNCHANGED db
       /\ \A e \in Follow' : e[1] # e[2]]_vars

\* a self-follow request has been answered
C5_Witness ==
    /\ last.req.op = "follow"
    /\ last.req.user \in Users
    /\ last.req.user = last.req.target
    /\ last.resp = "400_self"

\* C6: saving a Block with blocker = blocked fails and stores nothing: no
\* Block edge with blocker = blocked exists in any reachable state.
C6_NoSelfBlock ==
    /\ \A e \in Block : e[1] # e[2]
    /\ (last.req.op = "block" /\ last.req.user = last.req.target)
          => last.resp \notin {"saved", "integrity_error"}

\* C7: a follow request from a to b that directly follows a served follow
\* request from a to b (nothing in between, nothing in flight) reports
\* 'already following', changes no stored state, and the one edge (a, b)
\* is stored with its counters incremented.
C7_FollowIdempotent ==
    [][\A a \in Users, b \in Users :
          (/\ a # b
           /\ Quiescent
           /\ last.req = FollowReq(a, b)
           /\ Received(FollowReq(a, b)))
          => /\ Served(FollowReq(a, b), "400_already")
             /\ UNCHANGED db
             /\ <<a, b>> \in Follow
             /\ Profile[b].followers_count = Cardinality({e \in Follow : e[2] = b})
             /\ Profile[a].following_count = Cardinality({e \in Follow : e[1] = a})]_vars

\* C8: when the only two requests made are follow requests from alice to
\* bob on two threads, in any interleaving, then at the moment the second
\* of them is answered there is one edge (alice, bob), both counters are
\* 1, and neither answer is a server error.
C8_ConcurrentFollowOnce ==
    [][\A a \in Users, b \in Users :
          (/\ a # b
           /\ nops = 2
           /\ last.req = FollowReq(a, b)
           /\ \E t \in Threads :
                 /\ pc[t] # "idle" /\ pc'[t] = "idle" /\ req[t] = FollowReq(a, b)
                 /\ \A o \in Threads \ {t} : pc[o] = "idle")
          => /\ <<a, b>> \in Follow'
             /\ Profile'[b].followers_count = 1
             /\ Profile'[a].following_count = 1
             /\ last.resp \in {"201", "400_already"}
             /\ last'.resp \in {"201", "400_already"}]_vars

\* C9: an unfollow request from a to b received when no Follow edge (a, b)
\* exists is answered 400 'not following' and changes no Follow edge and
\* no counter.
C9_UnfollowWithoutEdge ==
    [][\A a \in Users, b \in Users :
          (a # b /\ <<a, b>> \notin Follow /\ Received(UnfollowReq(a, b)))
          => /\ Served(UnfollowReq(a, b), "400_not_following")
             /\ UNCHANGED db]_vars

\* an unfollow between distinct users without an edge has been answered
C9_Witness ==
    /\ last.req.op = "unfollow"
    /\ last.req.user \in Users /\ last.req.target \in Users
    /\ last.req.user # last.req.target
    /\ last.resp = "400_not_following"
    /\ <<last.req.user, last.req.target>> \notin Follow

\* C10: after alice's follow of bob has been served (no block between
\* them), bob has one more follower and the edge is stored; when bob then
\* saves a Block of alice, the statement of Block.save that removes the
\* edge (alice, bob) decrements bob's followers_count and alice's
\* following_count by exactly 1.
C10_BlockMaintainsCounters ==
    [][\A a \in Users, b \in Users :
          /\ (/\ a # b
              /\ Quiescent
              /\ last.req = FollowReq(a, b)
              /\ ~Blocked(a, b)
              /\ Received(BlockReq(b, a)))
             => /\ <<a, b>> \in Follow
                /\ Profile[b].followers_count >= 1
                /\ Profile[a].following_count >= 1
          /\ (\E t \in Threads :
                 /\ pc[t] = "block_delete2" /\ pc'[t] # "block_delete2"
                 /\ req[t] = BlockReq(b, a)
                 /\ <<a, b>> \in Follow)
             => /\ <<a, b>> \notin Follow'
                /\ Profile'[b].followers_count = Profile[b].followers_count - 1
                /\ Profile'[a].following_count = Profile[a].following_count - 1]_vars
DetailReq(v, p) == [op |-> "detail", user |-> v, target |-> p]
CanFollowReq(owner, v) == [op |-> "can_follow", user |-> v, target |-> owner]

\* this step answers a request
Answers ==
    \/ nops' = nops + 1 /\ pc' = pc
    \/ \E t \in Threads : pc[t] # "idle" /\ pc'[t] = "idle"

InEdges(F, b) == Cardinality({e \in F : e[2] = b})
OutEdges(F, a) == Cardinality({e \in F : e[1] = a})

C12_AtomicWithCounters ==
    [][/\ \A b \in Users :
             /\ Profile'[b].followers_count - Profile[b].followers_count
                   = InEdges(Follow', b) - InEdges(Follow, b)
             /\ Profile'[b].following_count - Profile[b].following_count
                   = OutEdges(Follow', b) - OutEdges(Follow, b)
       /\ (Answers /\ last'.resp \in {"500", "integrity_error"}) => UNCHANGED db]_vars

\* the receiver raised after the Follow row of the first request had been
\* written, and nothing of it is stored
C12_Witness ==
    /\ nops = 1
    /\ last.req.op = "follow" /\ last.resp = "500"
    /\ <<last.req.user, last.req.target>> \notin Follow
    /\ Profile[last.req.user].following_count = 0
    /\ Profile[last.req.target].followers_count = 0

\* C13: when the only two requests made are follows of the same target c
\* by two different users a and b, then at the moment the second of them
\* is answered c.followers_count is 2 and equals the number of stored
\* Follow edges with followed_user c.
C13_NoLostUpdate ==
    [][\A a \in Users, b \in Users, c \in Users :
          (/\ a # b /\ a # c /\ b # c
           /\ nops = 2
           /\ last.req = FollowReq(a, c)
           /\ \E t \in Threads :
                 /\ pc[t] # "idle" /\ pc'[t] = "idle" /\ req[t] = FollowReq(b, c)
                 /\ \A o \in Threads \ {t} : pc[o] = "idle")
          => /\ Profile'[c].followers_count = 2
             /\ Profile'[c].followers_count = InEdges(Follow', c)]_vars

C16_VisibilityGate ==
    [][\A v \in User, p \in DOMAIN Profile :
          Received(DetailReq(v, p))
          => /\ Answers
             /\ last'.req = DetailReq(v, p)
             /\ Blocked(v, p) => last'.resp \in {"403_you_blocked", "403_blocked_by"}
             /\ ~Blocked(v, p) => last'.resp = "200"
             /\ UNCHANGED db]_vars

\* a viewer blocked by the target has been denied
C16_Witness ==
    /\ last.req.op = "detail"
    /\ last.resp = "403_blocked_by"
    /\ <<last.req.target, last.req.user>> \in Block
    /\ <<last.req.user, last.req.target>> \notin Block

\* C17: Profile.can_follow(viewer) returns False whenever the profile's
\* who_can_follow is 'NONE', whatever is_private and the blocks are.
C17_NoneDeniesFollow ==
    [][\A owner \in Users, v \in Users :
          (/\ Received(CanFollowReq(owner, v))
           /\ Profile[owner].who_can_follow = "NONE")
          => last'.resp = "False"]_vars

\* C18: Profile.can_follow(viewer) returns False whenever a Block edge
\* exists between the viewer and the profile's user, in either direction.
C18_BlockDeniesFollow ==
    [][\A owner \in Users, v \in Users :
          (/\ Received(CanFollowReq(owner, v))
           /\ Blocked(owner, v))
          => last'.resp = "False"]_vars

\* C19: a follow request whose target profile has who_can_follow = 'NONE'
\* is answered with a privacy-denied error and changes no Follow edge and
\* no counter.
C19_FollowPrivacyDenied ==
    [][\A a \in Users, b \in Users :
          (/\ a # b
           /\ Profile[b].who_can_follow = "NONE"
           /\ Answers
           /\ last'.req = FollowReq(a, b))
          => /\ last'.resp = "403_privacy"
             /\ UNCHANGED db]_vars

\* C20: the step that deletes a Block row changes no Follow edge and no
\* counter, and leaves no Follow edge between the two users.
C20_UnblockRestoresNothing ==
    [][(Answers /\ last'.req.op = "unblock")
          => /\ last'.resp = "deleted"
             /\ <<last'.req.user, last'.req.target>> \in Block
             /\ <<last'.req.user, last'.req.target>> \notin Block'
             /\ UNCHANGED <<Follow, Profile>>
             /\ <<last'.req.user, last'.req.target>> \notin Follow'
             /\ <<last'.req.target, last'.req.user>> \notin Follow']_vars

\* a Block between two users was deleted as the third request, after it
\* had been saved, and no Follow edge between the two is stored
C20_Witness ==
    /\ nops = 3
    /\ Quiescent
    /\ last.req.op = "unblock" /\ last.resp = "deleted"
    /\ last.req.user # last.req.target
    /\ ~Blocked(last.req.user, last.req.target)
    /\ <<last.req.user, last.req.target>> \notin Follow
    /\ <<last.req.target, last.req.user>> \notin Follow
C22_OneProfilePerUser ==
    \A u \in User : u \in DOMAIN Profile /\ u \in DOMAIN ProfileKey
C24_FollowChangesTwoCounters ==
    [][(/\ Answers
        /\ nops' = 1
        /\ last'.req.op = "follow"
        /\ last'.req.user \in User /\ last'.req.target \in User
        /\ last'.req.user # last'.req.target)
          => LET a == last'.req.user
                 b == last'.req.target
             IN  /\ last'.resp = "201"
                 /\ Follow' = Follow \cup {<<a, b>>}
                 /\ Profile' = [Profile EXCEPT
                                   ![b].followers_count = @ + 1,
                                   ![a].following_count = @ + 1]]_vars
\* the usernames of the users blocked by u, latest Block row first
RECURSIVE MostRecentFirst(_, _)
MostRecentFirst(rows, u) ==
    IF rows = <<>> THEN <<>>
    ELSE LET e == rows[Len(rows)]
             rest == MostRecentFirst(SubSeq(rows, 1, Len(rows) - 1), u)
         IN  IF e[1] = u THEN <<username[e[2]]>> \o rest ELSE rest

\* C25: the blocked-users listing requested by a user u is the list of the
\* users b with a Block row (blocker u, blocked b), and of no others, in
\* the order of the rows' creation time, the most recent first.
C25_BlockedListNewestFirst ==
    [][(Answers /\ last'.req.op = "blocked_list" /\ last'.req.user \in User)
          => last'.resp = MostRecentFirst(BlockRows, last'.req.user)]_vars
\* C26: a stop request for a stored stream that is active, made by the
\* stream's owner, is answered 200 and leaves the stored stream with
\* is_active = False; a stop request answered 403 or 400 leaves the stored
\* streams as they were.
C26_StopStream ==
    [][(Answers /\ last'.req.op = "stop" /\ last'.req.target \in DOMAIN Stream)
          => LET id == last'.req.target
             IN  /\ (Stream[id].is_active /\ Stream[id].user = last'.req.user)
                       => (last'.resp = "200" /\ ~Stream'[id].is_active)
                 /\ last'.resp \in {"403", "400_stopped"} => Stream' = Stream]_vars

\* C27: start_stream on a stream whose status is PLANNED sets status LIVE,
\* is_active True and started_at; on a stream in any other status it
\* raises a validation error and leaves the stored stream as it was, so an
\* ENDED stream does not become LIVE through it.
C27_StartOnlyFromPlanned ==
    [][(Answers /\ last'.req.op = "start_stream")
          => LET id == last'.req.target
             IN  IF Stream[id].status = "PL"
                 THEN /\ last'.resp = "None"
                      /\ Stream' = [Stream EXCEPT ![id].status = "LV",
                                                  ![id].is_active = TRUE,
                                                  ![id].started_at = "now"]
                 ELSE /\ last'.resp = "ValidationError"
                      /\ Stream' = Stream]_vars

\* start_stream was refused on a stream that end_stream had ended
C27_Witness ==
    /\ last.req.op = "start_stream" /\ last.resp = "ValidationError"
    /\ last.req.target \in DOMAIN Stream
    /\ Stream[last.req.target].status = "EN"
    /\ ~Stream[last.req.target].is_active
    /\ Stream[last.req.target].ended_at = "now"

\* is_active is True exactly for status LIVE, for every stored stream
ActiveIffLive(S) == \A i \in DOMAIN S : S[i].is_active <=> S[i].status = "LV"

\* C28: StreamStartView, StreamStopView, Stream.start_stream and
\* Stream.end_stream keep is_active = True exactly for the streams whose
\* status is LIVE.
C28_ActiveIffLive ==
    [][(/\ Answers
        /\ last'.req.op \in {"start", "stop", "start_stream", "end_stream"}
        /\ ActiveIffLive(Stream))
          => ActiveIffLive(Stream')]_vars

\* C29: a stop request changes no field of the stored stream but
\* is_active, whatever copy of the stream is cached, and is answered
\* 'already stopped' when it comes from the owner of a stored stream that
\* is inactive.
C29_StopUsesStoredStream ==
    [][(Answers /\ last'.req.op = "stop" /\ last'.req.target \in DOMAIN Stream)
          => LET id == last'.req.target
             IN  /\ [Stream' EXCEPT ![id].is_active = Stream[id].is_active] = Stream
                 /\ (~Stream[id].is_active /\ Stream[id].user = last'.req.user)
                       => last'.resp = "400_stopped"]_vars

\* C30: a DELETE of post/like/ that user u sends after u's like of post p
\* was answered removes the Like (p, u) and no other Like, whatever other
\* users posted to the like or save endpoint in between.
C30_UnlikeOwnPost ==
    [][\A t \in Threads :
          (Liked(t) /\ pc'[t] = "idle" /\ last'.req.op = "unlike")
          => /\ <<req[t].target, req[t].user>> \in Like
             /\ Like' = Like \ {<<req[t].target, req[t].user>>}]_vars
====
